---- MODULE Spec2Model ----
(***************************************************************************)
(* Model of scripts/autoslice_aerostan_t1.py: the BBox value type, the     *)
(* path interpreter bbox_from_path_d, the clusterer cluster_bboxes, the    *)
(* selection step of main, and crop_to_square, crop_rect and               *)
(* svg_canvas_for_viewbox.                                                 *)
(***************************************************************************)
EXTENDS Integers, Sequences, FiniteSets, TLC

VARIABLES
  \* cluster_bboxes; passes counts the passes of the while loop that ended
  \* with changed set
  bboxes, proximity, clusters, out, changed, bi, ci, cpc, passes,
  \* bbox_from_path_d: ntok is len(tokens); the tokens themselves are drawn
  \* as the loop reads them; visited collects the arguments of add_point;
  \* pool holds the values the number tokens of the path may take.
  ntok, pool, i, t, cmd, x, y, start_x, start_y, minx, miny, maxx, maxy, ppc,
  ret, visited,
  \* the interpreter's locals on the absolute rewriting of the path read so far
  ab,
  \* main: its bboxes, clusters, top and mapping, and the codes written;
  \* beige_paths as lists of characters, di the place of "for d in beige_paths"
  mbboxes, mclusters, top, mapping, written, mpc, beige_paths, di,
  \* a call of crop_to_square, crop_rect or svg_canvas_for_viewbox: the box
  \* and the paddings passed, max_w, what is returned, and where the call is
  fb, fpad, max_w, fret, fpc

cvars == <<bboxes, proximity, clusters, out, changed, bi, ci, cpc, passes>>
pvars == <<ntok, pool, i, t, cmd, x, y, start_x, start_y, minx, miny, maxx,
           maxy, ppc, ret, visited>>
mvars == <<mbboxes, mclusters, top, mapping, written, mpc, beige_paths, di>>
fvars == <<fb, fpad, max_w, fret, fpc>>
vars == <<cvars, pvars, ab, mvars, fvars>>

(***************************************************************************)
(* Bounds of the model.                                                    *)
(***************************************************************************)
MaxBoxes == 3
MaxProx == 1
MaxTokens == 8
MaxOverflowTokens == 4
MaxLiveTokens == 7
MaxRelTokens == 9
MaxMainBoxes == 4

Min2(a, b) == IF b < a THEN b ELSE a
Max2(a, b) == IF b > a THEN b ELSE a

(***************************************************************************)
(* BBox                                                                    *)
(***************************************************************************)
BBox(x0, y0, x1, y1) == [minx |-> x0, miny |-> y0, maxx |-> x1, maxy |-> y1]

union_minima(self, other) ==
  BBox(Min2(self.minx, other.minx), Min2(self.miny, other.miny),
       self.maxx, self.maxy)

union_self(self, other) == self

union(self, other) ==
  BBox(Min2(self.minx, other.minx), Min2(self.miny, other.miny),
       Max2(self.maxx, other.maxx), Max2(self.maxy, other.maxy))

\* Centers and sizes; the model's coordinates keep the centers integral.
cx(self) == (self.minx + self.maxx) \div 2

cy(self) == (self.miny + self.maxy) \div 2

w(self) == self.maxx - self.minx

h(self) == self.maxy - self.miny

overlaps_strict(self, other, pad) ==
  ~ (\/ self.maxx + pad <= other.minx
     \/ other.maxx + pad <= self.minx
     \/ self.maxy + pad <= other.miny
     \/ other.maxy + pad <= self.miny)

overlaps(self, other, pad) ==
  ~ (\/ self.maxx + pad < other.minx
     \/ other.maxx + pad < self.minx
     \/ self.maxy + pad < other.miny
     \/ other.maxy + pad < self.miny)

(***************************************************************************)
(* cluster_bboxes                                                          *)
(***************************************************************************)
FirstHit_last(cs, b, pad) ==
  IF cs # <<>> /\ overlaps(cs[Len(cs)], b, pad) THEN Len(cs) ELSE 0

\* The inner "for i, c in enumerate(...)" loops: index of the first cluster
\* that overlaps b, 0 when the loop ends without a break.
FirstHit(cs, b, pad) ==
  IF \E n \in 1..Len(cs) : overlaps(cs[n], b, pad)
  THEN CHOOSE n \in 1..Len(cs) :
         /\ overlaps(cs[n], b, pad)
         /\ \A m \in 1..(n - 1) : ~ overlaps(cs[m], b, pad)
  ELSE 0

MergeInto_append(cs, b, pad) ==
  LET n == FirstHit(cs, b, pad)
  IN IF n = 0 THEN Append(cs, b)
     ELSE Append([cs EXCEPT ![n] = union(cs[n], b)], b)

\* One iteration of either outer loop: union into the first hit, else append.
MergeInto(cs, b, pad) ==
  LET n == FirstHit(cs, b, pad)
  IN IF n = 0 THEN Append(cs, b) ELSE [cs EXCEPT ![n] = union(cs[n], b)]

changed_never == FALSE

\* "changed = True" before the while loop.
changed_init == TRUE

(***************************************************************************)
(* bbox_from_path_d                                                        *)
(***************************************************************************)
\* float("inf"); a numeric literal too large for a float parses to it.
Inf == 1000000

NoCmd == "none"

Letters ==
  {"M", "m", "L", "l", "H", "h", "V", "v", "C", "c", "S", "s", "Q", "q",
   "T", "t", "A", "a", "Z", "z"}

\* Values of the number tokens of the model: two finite ones, and with them
\* the value of a literal that overflows, such as 1e999.
FiniteNums == {-1, 2}

OverflowNums == FiniteNums \cup {Inf}

Letter(l) == [letter |-> l]
Number(v) == [number |-> v]
IsLetter(tok) == "letter" \in DOMAIN tok

\* t before the loop has assigned it.
NoToken == [unset |-> TRUE]

\* Float addition on the modelled values.
FAdd(a, b) == IF a = Inf \/ b = Inf THEN Inf ELSE a + b

State ==
  [cmd |-> cmd, x |-> x, y |-> y, start_x |-> start_x, start_y |-> start_y,
   minx |-> minx, miny |-> miny, maxx |-> maxx, maxy |-> maxy,
   visited |-> visited]

State0 ==
  [cmd |-> NoCmd, x |-> 0, y |-> 0, start_x |-> 0, start_y |-> 0,
   minx |-> Inf, miny |-> Inf, maxx |-> -Inf, maxy |-> -Inf, visited |-> {}]

add_point_min_only(s, px, py) ==
  [s EXCEPT !.minx = Min2(s.minx, px), !.miny = Min2(s.miny, py),
            !.visited = s.visited \cup {<<px, py>>}]

add_point(s, px, py) ==
  [s EXCEPT !.minx = Min2(s.minx, px), !.miny = Min2(s.miny, py),
            !.maxx = Max2(s.maxx, px), !.maxy = Max2(s.maxy, py),
            !.visited = s.visited \cup {<<px, py>>}]

\* take_numbers over the tokens it reads: rd is tokens[i : i+n] cut at the end
\* of the list or after the first letter, on which float() raises.
take_numbers(rd, n) ==
  IF \E k \in 1..Len(rd) : IsLetter(rd[k])
  THEN [raised |-> TRUE, nums |-> <<>>]
  ELSE [raised |-> FALSE, nums |-> [k \in 1..Len(rd) |-> rd[k].number]]

Rel(s, lower, v, cur) == IF s.cmd = lower THEN FAdd(v, cur) ELSE v

\* A command letter is read (lines 111-117).
closepath_keep(s) == add_point(s, s.x, s.y)

closepath(s) == add_point([s EXCEPT !.x = s.start_x, !.y = s.start_y],
                          s.start_x, s.start_y)

on_letter(s, l) ==
  LET r == [s EXCEPT !.cmd = l]
  IN IF l \in {"Z", "z"} THEN closepath(r) ELSE r

implicit_moveto(c) == c

\* "cmd = 'L' if cmd == 'M' else 'l'"
implicit_after_move(c) == IF c = "M" THEN "L" ELSE "l"

moveto(s, n) ==
  LET nx == Rel(s, "m", n[1], s.x)
      ny == Rel(s, "m", n[2], s.y)
      r == add_point([s EXCEPT !.x = nx, !.y = ny, !.start_x = nx, !.start_y = ny],
                     nx, ny)
  IN [r EXCEPT !.cmd = implicit_after_move(s.cmd)]

lineto(s, n) ==
  LET nx == Rel(s, "l", n[1], s.x)
      ny == Rel(s, "l", n[2], s.y)
  IN add_point([s EXCEPT !.x = nx, !.y = ny], nx, ny)

horizontal(s, n) ==
  LET nx == FAdd(n[1], IF s.cmd = "h" THEN s.x ELSE 0)
  IN add_point([s EXCEPT !.x = nx], nx, s.y)

vertical(s, n) ==
  LET ny == FAdd(n[1], IF s.cmd = "v" THEN s.y ELSE 0)
  IN add_point([s EXCEPT !.y = ny], s.x, ny)

\* Control points offset from the subpath start instead of the cursor.
curveto_from_start(s, n) ==
  LET x1 == Rel(s, "c", n[1], s.start_x)
      y1 == Rel(s, "c", n[2], s.start_y)
      x2 == Rel(s, "c", n[3], s.start_x)
      y2 == Rel(s, "c", n[4], s.start_y)
      nx == Rel(s, "c", n[5], s.x)
      ny == Rel(s, "c", n[6], s.y)
      r1 == add_point(s, x1, y1)
      r2 == add_point(r1, x2, y2)
  IN add_point([r2 EXCEPT !.x = nx, !.y = ny], nx, ny)

curveto(s, n) ==
  LET x1 == Rel(s, "c", n[1], s.x)
      y1 == Rel(s, "c", n[2], s.y)
      x2 == Rel(s, "c", n[3], s.x)
      y2 == Rel(s, "c", n[4], s.y)
      nx == Rel(s, "c", n[5], s.x)
      ny == Rel(s, "c", n[6], s.y)
      r1 == add_point(s, x1, y1)
      r2 == add_point(r1, x2, y2)
  IN add_point([r2 EXCEPT !.x = nx, !.y = ny], nx, ny)

smooth(s, n) ==
  LET x2 == Rel(s, "s", n[1], s.x)
      y2 == Rel(s, "s", n[2], s.y)
      nx == Rel(s, "s", n[3], s.x)
      ny == Rel(s, "s", n[4], s.y)
      r1 == add_point(s, x2, y2)
  IN add_point([r1 EXCEPT !.x = nx, !.y = ny], nx, ny)

quadratic(s, n) ==
  LET x1 == Rel(s, "q", n[1], s.x)
      y1 == Rel(s, "q", n[2], s.y)
      nx == Rel(s, "q", n[3], s.x)
      ny == Rel(s, "q", n[4], s.y)
      r1 == add_point(s, x1, y1)
  IN add_point([r1 EXCEPT !.x = nx, !.y = ny], nx, ny)

smooth_quadratic(s, n) ==
  LET nx == Rel(s, "t", n[1], s.x)
      ny == Rel(s, "t", n[2], s.y)
  IN add_point([s EXCEPT !.x = nx, !.y = ny], nx, ny)

arc_with_radii(s, n) ==
  LET nx == Rel(s, "a", n[6], s.x)
      ny == Rel(s, "a", n[7], s.y)
      r1 == add_point(s, n[1], n[2])
  IN add_point([r1 EXCEPT !.x = nx, !.y = ny], nx, ny)

arc(s, n) ==
  LET nx == Rel(s, "a", n[6], s.x)
      ny == Rel(s, "a", n[7], s.y)
  IN add_point([s EXCEPT !.x = nx, !.y = ny], nx, ny)

\* Numbers take_numbers is asked for under each command.
Arity(c) ==
  CASE c \in {"M", "m", "L", "l", "T", "t"} -> 2
    [] c \in {"H", "h", "V", "v"} -> 1
    [] c \in {"C", "c"} -> 6
    [] c \in {"S", "s", "Q", "q"} -> 4
    [] c \in {"A", "a"} -> 7
    [] OTHER -> 0

\* A complete argument group under the active command (lines 122-238).
on_group(s, n) ==
  CASE s.cmd \in {"M", "m"} -> moveto(s, n)
    [] s.cmd \in {"L", "l"} -> lineto(s, n)
    [] s.cmd \in {"H", "h"} -> horizontal(s, n)
    [] s.cmd \in {"V", "v"} -> vertical(s, n)
    [] s.cmd \in {"C", "c"} -> curveto(s, n)
    [] s.cmd \in {"S", "s"} -> smooth(s, n)
    [] s.cmd \in {"Q", "q"} -> quadratic(s, n)
    [] s.cmd \in {"T", "t"} -> smooth_quadratic(s, n)
    [] s.cmd \in {"A", "a"} -> arc(s, n)

\* "if minx == float('inf'): return None", None as the empty sequence.
result(s) ==
  IF s.minx = Inf THEN <<>> ELSE <<BBox(s.minx, s.miny, s.maxx, s.maxy)>>

Assign(s) ==
  /\ cmd' = s.cmd
  /\ x' = s.x
  /\ y' = s.y
  /\ start_x' = s.start_x
  /\ start_y' = s.start_y
  /\ minx' = s.minx
  /\ miny' = s.miny
  /\ maxx' = s.maxx
  /\ maxy' = s.maxy
  /\ visited' = s.visited

FuncIdle ==
  /\ fb = <<>>
  /\ fpad = <<>>
  /\ max_w = 0
  /\ fret = <<>>
  /\ fpc = "idle"

ClusterIdle ==
  /\ bboxes = <<>>
  /\ proximity = 0
  /\ clusters = <<>>
  /\ out = <<>>
  /\ changed = FALSE
  /\ bi = 1
  /\ ci = 1
  /\ cpc = "idle"
  /\ passes = 0

MainIdle ==
  /\ mbboxes = <<>>
  /\ mclusters = <<>>
  /\ top = <<>>
  /\ mapping = <<>>
  /\ written = <<>>
  /\ mpc = "idle"
  /\ beige_paths = <<>>
  /\ di = 0

\* The locals as they stand at line 107, before the loop.
PathLocals ==
  /\ i = 0
  /\ t = NoToken
  /\ cmd = NoCmd
  /\ x = 0
  /\ y = 0
  /\ start_x = 0
  /\ start_y = 0
  /\ minx = Inf
  /\ miny = Inf
  /\ maxx = -Inf
  /\ maxy = -Inf
  /\ visited = {}
  /\ ret = <<>>

PathIdle ==
  /\ ntok = 0
  /\ pool = {}
  /\ PathLocals
  /\ ppc = "idle"

\* Paths of up to MaxTokens tokens with finite numbers, and the shorter ones
\* also with an overflowing literal among the numbers.
PathInit ==
  /\ ntok \in 0..MaxTokens
  /\ pool \in {FiniteNums} \cup (IF ntok <= MaxOverflowTokens
                                 THEN {OverflowNums} ELSE {})
  /\ PathLocals
  /\ ppc = "entry"
  /\ ClusterIdle
  /\ ab = State0
  /\ MainIdle
  /\ FuncIdle

\* "if not tokens: return None"
NoTokens ==
  /\ ppc = "entry"
  /\ ntok = 0
  /\ ret' = <<>>
  /\ ppc' = "return"
  /\ UNCHANGED <<ntok, pool, i, t, cmd, x, y, start_x, start_y, minx, miny, maxx, maxy,
                 visited>>
  /\ UNCHANGED <<cvars, ab, mvars, fvars>>

EnterLoop ==
  /\ ppc = "entry"
  /\ ntok > 0
  /\ ppc' = "loop"
  /\ UNCHANGED <<ntok, pool, i, t, cmd, x, y, start_x, start_y, minx, miny, maxx, maxy,
                 ret, visited>>
  /\ UNCHANGED <<cvars, ab, mvars, fvars>>

\* tokens[i] is a command letter.
ReadLetter ==
  /\ ppc = "loop"
  /\ i < ntok
  /\ \E l \in Letters :
       /\ t' = Letter(l)
       /\ Assign(on_letter(State, l))
  /\ i' = i + 1
  /\ UNCHANGED <<ntok, pool, ppc, ret>>
  /\ UNCHANGED <<cvars, ab, mvars, fvars>>

\* tokens[i] is a number before any command letter: "malformed path", break
\* to the return statement.
Malformed ==
  /\ ppc = "loop"
  /\ i < ntok
  /\ cmd = NoCmd
  /\ \E v \in pool : t' = Number(v)
  /\ ret' = result(State)
  /\ ppc' = "return"
  /\ UNCHANGED <<ntok, pool, i, cmd, x, y, start_x, start_y, minx, miny, maxx, maxy,
                 visited>>
  /\ UNCHANGED <<cvars, ab, mvars, fvars>>

\* What take_numbers(i, n) can read when tokens[i] is a number and avail
\* tokens remain: n numbers; or, with the numbers after tokens[i] never used
\* and one value standing for them, the avail < n numbers left, or some
\* numbers and then a letter.
Reads(n, avail) ==
  LET m == Min2(n, avail)
      Cut(v, len) == [k \in 1..len |-> Number(IF k = 1 THEN v ELSE 0)]
  IN (IF avail >= n
      THEN {[k \in 1..n |-> Number(f[k])] : f \in [1..n -> pool]}
      ELSE {Cut(v, avail) : v \in pool})
       \cup {Append(Cut(v, j), Letter(l)) :
               v \in pool, j \in 1..(m - 1), l \in Letters}

\* tokens[i] is a number and the active command takes arguments: the group
\* is handled, or is incomplete (break to the return statement), or float()
\* raises on a letter.
Group ==
  /\ ppc = "loop"
  /\ i < ntok
  /\ \E rd \in Reads(Arity(cmd), ntok - i) :
       LET r == take_numbers(rd, Arity(cmd))
       IN /\ t' = rd[1]
          /\ IF r.raised
             THEN /\ ppc' = "ValueError"
                  /\ i' = i + Len(rd) - 1
                  /\ UNCHANGED <<cmd, x, y, start_x, start_y, minx, miny, maxx,
                                 maxy, visited, ret>>
             ELSE IF Len(r.nums) < Arity(cmd)
             THEN /\ ppc' = "return"
                  /\ ret' = result(State)
                  /\ i' = i + Len(rd)
                  /\ UNCHANGED <<cmd, x, y, start_x, start_y, minx, miny, maxx,
                                 maxy, visited>>
             ELSE /\ ppc' = "loop"
                  /\ i' = i + Len(rd)
                  /\ Assign(on_group(State, r.nums))
                  /\ UNCHANGED ret
  /\ UNCHANGED <<ntok, pool>>
  /\ UNCHANGED <<cvars, ab, mvars, fvars>>

StepM ==
  /\ cmd \in {"M", "m"}
  /\ Group

StepL ==
  /\ cmd \in {"L", "l"}
  /\ Group

StepH ==
  /\ cmd \in {"H", "h"}
  /\ Group

StepV ==
  /\ cmd \in {"V", "v"}
  /\ Group

StepC ==
  /\ cmd \in {"C", "c"}
  /\ Group

StepS ==
  /\ cmd \in {"S", "s"}
  /\ Group

StepQ ==
  /\ cmd \in {"Q", "q"}
  /\ Group

StepT ==
  /\ cmd \in {"T", "t"}
  /\ Group

StepA ==
  /\ cmd \in {"A", "a"}
  /\ Group


skip_none(n) == n

\* "i += 1" of line 241
skip_one(n) == n + 1

\* tokens[i] is a number after Z or z: "skip one token".
SkipToken ==
  /\ ppc = "loop"
  /\ i < ntok
  /\ cmd \in {"Z", "z"}
  /\ \E v \in pool : t' = Number(v)
  /\ i' = skip_one(i)
  /\ UNCHANGED <<ntok, pool, cmd, x, y, start_x, start_y, minx, miny, maxx, maxy,
                 ppc, ret, visited>>
  /\ UNCHANGED <<cvars, ab, mvars, fvars>>

\* The while condition fails: the return statement.
LoopEnd ==
  /\ ppc = "loop"
  /\ i >= ntok
  /\ ret' = result(State)
  /\ ppc' = "return"
  /\ UNCHANGED <<ntok, pool, i, t, cmd, x, y, start_x, start_y, minx, miny, maxx, maxy,
                 visited>>
  /\ UNCHANGED <<cvars, ab, mvars, fvars>>

PathNext ==
  \/ NoTokens
  \/ EnterLoop
  \/ ReadLetter
  \/ Malformed
  \/ StepM
  \/ StepL
  \/ StepH
  \/ StepV
  \/ StepC
  \/ StepS
  \/ StepQ
  \/ StepT
  \/ StepA
  \/ SkipToken
  \/ LoopEnd

SpecPath == PathInit /\ [][PathNext]_vars

\* The function keeps running until it returns or raises; paths of up to
\* MaxLiveTokens tokens.
PathLiveInit == PathInit /\ ntok <= MaxLiveTokens

SpecPathLive == PathLiveInit /\ [][PathNext]_vars /\ WF_vars(PathNext)

WellFormed(b) == b.minx <= b.maxx /\ b.miny <= b.maxy

\* Coordinates of the input boxes of the model.
XCoords == 0..2

YCoords == 0..1

\* The boxes of the model are those of paths that reach more than one point.
Boxes ==
  {b \in {BBox(x0, y0, x1, y1) : x0 \in XCoords, y0 \in YCoords,
                                 x1 \in XCoords, y1 \in YCoords} :
     w(b) > 0 \/ h(b) > 0}

SeqsUpTo(S, n) == UNION {[1..m -> S] : m \in 0..n}

ClusterInit ==
  /\ bboxes \in SeqsUpTo({b \in Boxes : WellFormed(b)}, MaxBoxes)
  /\ proximity \in 0..MaxProx
  /\ clusters = <<>>
  /\ out = <<>>
  /\ changed = FALSE
  /\ bi = 1
  /\ ci = 1
  /\ cpc = "greedy"
  /\ passes = 0
  /\ PathIdle
  /\ ab = State0
  /\ MainIdle
  /\ FuncIdle

GreedyStep ==
  /\ cpc = "greedy"
  /\ bi <= Len(bboxes)
  /\ clusters' = MergeInto(clusters, bboxes[bi], proximity)
  /\ bi' = bi + 1
  /\ UNCHANGED <<bboxes, proximity, out, changed, ci, cpc, passes>>
  /\ UNCHANGED <<pvars, ab, mvars, fvars>>

GreedyDone ==
  /\ cpc = "greedy"
  /\ bi > Len(bboxes)
  /\ changed' = changed_init
  /\ cpc' = "while"
  /\ UNCHANGED <<bboxes, proximity, clusters, out, bi, ci, passes>>
  /\ UNCHANGED <<pvars, ab, mvars, fvars>>

PassBegin ==
  /\ cpc = "while"
  /\ changed
  /\ changed' = FALSE
  /\ out' = <<>>
  /\ ci' = 1
  /\ cpc' = "pass"
  /\ UNCHANGED <<bboxes, proximity, clusters, bi, passes>>
  /\ UNCHANGED <<pvars, ab, mvars, fvars>>

RemergeStep ==
  /\ cpc = "pass"
  /\ ci <= Len(clusters)
  /\ out' = MergeInto(out, clusters[ci], proximity)
  /\ changed' = (changed \/ FirstHit(out, clusters[ci], proximity) # 0)
  /\ ci' = ci + 1
  /\ UNCHANGED <<bboxes, proximity, clusters, bi, cpc, passes>>
  /\ UNCHANGED <<pvars, ab, mvars, fvars>>

PassEnd ==
  /\ cpc = "pass"
  /\ ci > Len(clusters)
  /\ clusters' = out
  /\ passes' = IF changed THEN passes + 1 ELSE passes
  /\ cpc' = "while"
  /\ UNCHANGED <<bboxes, proximity, out, changed, bi, ci>>
  /\ UNCHANGED <<pvars, ab, mvars, fvars>>

ClusterReturn ==
  /\ cpc = "while"
  /\ ~ changed
  /\ cpc' = "done"
  /\ UNCHANGED <<bboxes, proximity, clusters, out, changed, bi, ci, passes>>
  /\ UNCHANGED <<pvars, ab, mvars, fvars>>

ClusterNext ==
  \/ GreedyStep
  \/ GreedyDone
  \/ PassBegin
  \/ RemergeStep
  \/ PassEnd
  \/ ClusterReturn

SpecCluster == ClusterInit /\ [][ClusterNext]_vars

\* The function keeps running until it returns.
SpecClusterLive == SpecCluster /\ WF_vars(ClusterNext)

\* cluster_bboxes as a function of its arguments, built from the same steps.
RECURSIVE GreedyPhase(_, _, _)
GreedyPhase(cs, bs, pad) ==
  IF bs = <<>> THEN cs ELSE GreedyPhase(MergeInto(cs, Head(bs), pad), Tail(bs), pad)

RECURSIVE RemergePass(_, _, _, _)
RemergePass(o, cs, pad, ch) ==
  IF cs = <<>> THEN [out |-> o, changed |-> ch]
  ELSE RemergePass(MergeInto(o, Head(cs), pad), Tail(cs), pad,
                   ch \/ FirstHit(o, Head(cs), pad) # 0)

RECURSIVE UntilStable(_, _, _)
UntilStable(cs, pad, ch) ==
  IF ~ ch THEN cs
  ELSE LET r == RemergePass(<<>>, cs, pad, FALSE)
       IN UntilStable(r.out, pad, r.changed)

cluster_bboxes(bs, pad) == UntilStable(GreedyPhase(<<>>, bs, pad), pad, changed_init)

(***************************************************************************)
(* main, from the call of cluster_bboxes to the writing of the outputs     *)
(***************************************************************************)
MainProximity == 22
MinWidth == 80
MinHeight == 60
TopCount == 3

Codes == <<"AKE", "AKH", "LD9">>

\* list.sort(key=...) with keys[n] the key of s[n]: ascending and stable, so
\* an element's place is the number of elements with a smaller key, or an
\* equal key and an earlier index.
sort(s, keys) ==
  LET rank(n) ==
        Cardinality({m \in 1..Len(s) :
                       \/ keys[m] < keys[n]
                       \/ (keys[m] = keys[n] /\ m < n)}) + 1
  IN [r \in 1..Len(s) |-> s[CHOOSE n \in 1..Len(s) : rank(n) = r]]

\* The keys "lambda c: c.cy()" and "lambda c: c.cx()" give.
cy_keys(s) == [n \in 1..Len(s) |-> cy(s[n])]

cx_keys(s) == [n \in 1..Len(s) |-> cx(s[n])]

\* s[:n]
Prefix(s, n) == SubSeq(s, 1, Min2(n, Len(s)))

size_filter_any(cs) ==
  SelectSeq(cs, LAMBDA c : w(c) > MinWidth \/ h(c) > MinHeight)

size_filter(cs) == SelectSeq(cs, LAMBDA c : w(c) > MinWidth /\ h(c) > MinHeight)

\* Path boxes of the model: even coordinates; five corners, of which the
\* first two are within MainProximity of each other; a size that passes
\* both size tests at every corner, one that is too flat in the upper row
\* and one that is too narrow at three corners.
MainBoxes ==
  {BBox(c[1], c[2], c[1] + 100, c[2] + 90) :
     c \in {<<0, 0>>, <<110, 0>>, <<400, 0>>, <<0, 120>>, <<400, 120>>}}
    \cup {BBox(c[1], c[2], c[1] + 100, c[2] + 50) :
            c \in {<<0, 0>>, <<110, 0>>, <<400, 0>>}}
    \cup {BBox(c[1], c[2], c[1] + 70, c[2] + 90) :
            c \in {<<0, 0>>, <<0, 120>>, <<400, 120>>}}

MainInit ==
  /\ mbboxes \in SeqsUpTo(MainBoxes, MaxMainBoxes)
  /\ mclusters = <<>>
  /\ top = <<>>
  /\ mapping = <<>>
  /\ written = <<>>
  /\ mpc = "bboxes"
  /\ beige_paths = <<>>
  /\ di = 0
  /\ ClusterIdle
  /\ PathIdle
  /\ ab = State0
  /\ FuncIdle

\* "if not bboxes: raise SystemExit(...)"
MainNoBoxes ==
  /\ mpc = "bboxes"
  /\ mbboxes = <<>>
  /\ mpc' = "SystemExit"
  /\ UNCHANGED <<beige_paths, di, mbboxes, mclusters, top, mapping, written>>
  /\ UNCHANGED <<cvars, pvars, ab, fvars>>

MainCluster ==
  /\ mpc = "bboxes"
  /\ mbboxes # <<>>
  /\ mclusters' = cluster_bboxes(mbboxes, MainProximity)
  /\ mpc' = "filter"
  /\ UNCHANGED <<beige_paths, di, mbboxes, top, mapping, written>>
  /\ UNCHANGED <<cvars, pvars, ab, fvars>>

MainFilter ==
  /\ mpc = "filter"
  /\ mclusters' = size_filter(mclusters)
  /\ mpc' = "select"
  /\ UNCHANGED <<beige_paths, di, mbboxes, top, mapping, written>>
  /\ UNCHANGED <<cvars, pvars, ab, fvars>>

\* clusters.sort(cy); top = clusters[:3]; top.sort(cx)
MainSelect ==
  /\ mpc = "select"
  /\ mclusters' = sort(mclusters, cy_keys(mclusters))
  /\ top' = LET t3 == Prefix(sort(mclusters, cy_keys(mclusters)), TopCount)
            IN sort(t3, cx_keys(t3))
  /\ mpc' = "mapping"
  /\ UNCHANGED <<beige_paths, di, mbboxes, mapping, written>>
  /\ UNCHANGED <<cvars, pvars, ab, fvars>>

\* The mapping literal reads top[0], top[1], top[2]; a missing one raises.
MainMapping ==
  /\ mpc = "mapping"
  /\ IF Len(top) < Len(Codes)
     THEN /\ mpc' = "IndexError"
          /\ UNCHANGED mapping
     ELSE /\ mapping' = [n \in 1..Len(Codes) |-> [code |-> Codes[n], bb |-> top[n]]]
          /\ mpc' = "write"
  /\ UNCHANGED <<beige_paths, di, mbboxes, mclusters, top, written>>
  /\ UNCHANGED <<cvars, pvars, ab, fvars>>

\* One iteration of "for code, bb in mapping": one file written.
MainWrite ==
  /\ mpc = "write"
  /\ Len(written) < Len(mapping)
  /\ written' = Append(written, mapping[Len(written) + 1].code)
  /\ UNCHANGED <<beige_paths, di, mbboxes, mclusters, top, mapping, mpc>>
  /\ UNCHANGED <<cvars, pvars, ab, fvars>>

MainReturn ==
  /\ mpc = "write"
  /\ Len(written) = Len(mapping)
  /\ mpc' = "return"
  /\ UNCHANGED <<beige_paths, di, mbboxes, mclusters, top, mapping, written>>
  /\ UNCHANGED <<cvars, pvars, ab, fvars>>

MainNext ==
  \/ MainNoBoxes
  \/ MainCluster
  \/ MainFilter
  \/ MainSelect
  \/ MainMapping
  \/ MainWrite
  \/ MainReturn

SpecMain == MainInit /\ [][MainNext]_vars

\* C10: when fewer clusters than requested survive the size filter, the run
\* past the selection is in the InsufficientClusters failure and has written
\* nothing.
C10_InsufficientClusters ==
  (mpc \in {"write", "return", "IndexError", "InsufficientClusters"}
     /\ Len(mclusters) < TopCount) =>
    (mpc = "InsufficientClusters" /\ written = <<>>)

Qualifies(c) == c.maxx - c.minx > MinWidth /\ c.maxy - c.miny > MinHeight

\* The clusters of the run's path boxes that pass both size tests.
Qualifying ==
  LET all == cluster_bboxes(mbboxes, MainProximity)
  IN {all[n] : n \in {m \in 1..Len(all) : Qualifies(all[m])}}

\* C11: after the selection, top holds TopCount of the clusters that pass both
\* the width and the height test (all of them when there are fewer), none that
\* fails a test, no qualifying cluster left out has a smaller vertical centre
\* than a selected one, and top is in ascending order of horizontal centre.
C11_RankingPolicy ==
  mpc = "mapping" =>
    /\ Len(top) = Min2(TopCount, Cardinality(Qualifying))
    /\ \A k \in 1..Len(top) : top[k] \in Qualifying
    /\ \A k, l \in 1..Len(top) : k # l => top[k] # top[l]
    /\ \A c \in Qualifying :
         (\A k \in 1..Len(top) : top[k] # c) =>
           \A k \in 1..Len(top) : cy(top[k]) <= cy(c)
    /\ \A k \in 1..(Len(top) - 1) : cx(top[k]) <= cx(top[k + 1])

\* Three clusters selected, the left-to-right order differing from the
\* top-to-bottom one, and a cluster that is too flat lying above them all.
C11_Witness ==
  /\ mpc = "mapping"
  /\ Len(top) = TopCount
  /\ top # Prefix(mclusters, TopCount)
  /\ LET all == cluster_bboxes(mbboxes, MainProximity)
     IN \E n \in 1..Len(all) :
          /\ ~ Qualifies(all[n])
          /\ \A k \in 1..Len(top) : cy(all[n]) < cy(top[k])

(***************************************************************************)
(* Properties of cluster_bboxes                                            *)
(***************************************************************************)
Range(s) == {s[n] : n \in 1..Len(s)}

Perms(n) == {f \in [1..n -> 1..n] : \A a, b \in 1..n : a # b => f[a] # f[b]}

Permuted(s, f) == [n \in 1..Len(s) |-> s[f[n]]]

\* Axis-aligned gap between two intervals (0 when they intersect).
Gap(lo1, hi1, lo2, hi2) == Max2(Max2(lo2 - hi1, lo1 - hi2), 0)

\* Both per-axis gaps are at most d.
Within(a, b, d) ==
  /\ Gap(a.minx, a.maxx, b.minx, b.maxx) <= d
  /\ Gap(a.miny, a.maxy, b.miny, b.maxy) <= d

Contains(o, b) ==
  /\ o.minx <= b.minx
  /\ o.miny <= b.miny
  /\ b.maxx <= o.maxx
  /\ b.maxy <= o.maxy

\* Input positions reachable from position a through input boxes pairwise Within.
RECURSIVE ChainFrom(_, _)
ChainFrom(S, n) ==
  IF n = 0 THEN S
  ELSE ChainFrom(S \cup {q \in 1..Len(bboxes) :
                           \E p \in S : Within(bboxes[p], bboxes[q], proximity)},
                 n - 1)

Chained(a, b) == b \in ChainFrom({a}, Len(bboxes))

SameOutput(a, b) ==
  \E n \in 1..Len(clusters) :
    Contains(clusters[n], bboxes[a]) /\ Contains(clusters[n], bboxes[b])

\* C1: clustering any permutation of the input returns the same set of boxes.
C1_OrderIndependent ==
  cpc = "done" =>
    \A f \in Perms(Len(bboxes)) :
      Range(cluster_bboxes(Permuted(bboxes, f), proximity)) = Range(clusters)

\* A run whose greedy phase left two clusters for a re-merge pass to join.
C1_Witness ==
  /\ cpc = "done"
  /\ Len(bboxes) = 3
  /\ Len(clusters) = 1
  /\ Len(GreedyPhase(<<>>, bboxes, proximity)) = 2

\* C2 (as claimed): two input boxes share an output box exactly when a chain
\* of input boxes, each link within proximity on both axes, connects them.
C2_ChainIff ==
  cpc = "done" =>
    \A a, b \in 1..Len(bboxes) : SameOutput(a, b) <=> Chained(a, b)

\* C2 (amended): input boxes connected by a chain of input boxes share an
\* output box.
C2_ChainImpliesSameOutput ==
  cpc = "done" =>
    \A a, b \in 1..Len(bboxes) : Chained(a, b) => SameOutput(a, b)

\* Two boxes joined only through a third, in an input of three.
C2_Witness ==
  /\ cpc = "done"
  /\ Len(bboxes) = 3
  /\ ~ Within(bboxes[1], bboxes[2], proximity)
  /\ Chained(1, 2)
  /\ SameOutput(1, 2)

\* Only a shared edge: a.maxx = b.minx, both of positive width, y ranges
\* overlapping.
TouchingEdge(a, b) ==
  /\ a.minx < a.maxx
  /\ b.minx < b.maxx
  /\ a.maxx = b.minx
  /\ a.miny < b.maxy
  /\ b.miny < a.maxy

\* C4 (as claimed): at proximity 0 two boxes sharing only an edge stay two
\* output boxes.
C4_TouchingStaysSeparate ==
  (cpc = "done" /\ proximity = 0 /\ Len(bboxes) = 2
     /\ TouchingEdge(bboxes[1], bboxes[2]))
    => Len(clusters) = 2

\* C4 (amended): at proximity 0 two input boxes are merged into their union
\* exactly when their closed extents intersect, a shared edge included; they
\* stay separate only when a positive gap divides them on some axis.
C4_ClosedIntersectionMerges ==
  (cpc = "done" /\ proximity = 0 /\ Len(bboxes) = 2) =>
    LET a == bboxes[1]
        b == bboxes[2]
        meet == /\ a.minx <= b.maxx
                /\ b.minx <= a.maxx
                /\ a.miny <= b.maxy
                /\ b.miny <= a.maxy
    IN IF meet
       THEN clusters = <<BBox(Min2(a.minx, b.minx), Min2(a.miny, b.miny),
                              Max2(a.maxx, b.maxx), Max2(a.maxy, b.maxy))>>
       ELSE clusters = <<a, b>>

C4_Witness ==
  /\ cpc = "done"
  /\ proximity = 0
  /\ Len(bboxes) = 2
  /\ TouchingEdge(bboxes[1], bboxes[2])
  /\ Len(clusters) = 1

\* C5: on return no two distinct output boxes are within proximity of each
\* other.
C5_OutputsApart ==
  cpc = "done" =>
    \A p, q \in 1..Len(clusters) :
      p # q => ~ Within(clusters[p], clusters[q], proximity)

\* Two output boxes remain after at least one merge.
C5_Witness ==
  /\ cpc = "done"
  /\ Len(clusters) = 2
  /\ Len(bboxes) = 3

(***************************************************************************)
(* A path written with relative commands, read group by group together     *)
(* with its absolute rewriting: the same letters in upper case, every      *)
(* coordinate of a group offset by the cursor held when the group starts.  *)
(***************************************************************************)
RelLetters == {"m", "l", "h", "v", "c", "s", "q", "t", "a", "z"}

Upper(l) ==
  CASE l = "m" -> "M" [] l = "l" -> "L" [] l = "h" -> "H" [] l = "v" -> "V"
    [] l = "c" -> "C" [] l = "s" -> "S" [] l = "q" -> "Q" [] l = "t" -> "T"
    [] l = "a" -> "A" [] l = "z" -> "Z"

Absolute(c, n, curx, cury) ==
  CASE c = "h" -> <<FAdd(n[1], curx)>>
    [] c = "v" -> <<FAdd(n[1], cury)>>
    [] c = "a" -> [k \in 1..7 |-> IF k = 6 THEN FAdd(n[6], curx)
                                  ELSE IF k = 7 THEN FAdd(n[7], cury) ELSE n[k]]
    [] OTHER -> [k \in 1..Len(n) |->
                   FAdd(n[k], IF k % 2 = 1 THEN curx ELSE cury)]

RelInit ==
  /\ ntok \in 0..MaxRelTokens
  /\ pool = FiniteNums
  /\ PathLocals
  /\ ppc = "loop"
  /\ ab = State0
  /\ ClusterIdle
  /\ MainIdle
  /\ FuncIdle

RelLetter ==
  /\ ppc = "loop"
  /\ i < ntok
  /\ \E l \in RelLetters :
       /\ t' = Letter(l)
       /\ Assign(on_letter(State, l))
       /\ ab' = on_letter(ab, Upper(l))
  /\ i' = i + 1
  /\ UNCHANGED <<ntok, pool, ppc, ret>>
  /\ UNCHANGED <<cvars, mvars, fvars>>

RelGroup ==
  /\ ppc = "loop"
  /\ cmd \in RelLetters \ {"z"}
  /\ i + Arity(cmd) <= ntok
  /\ \E n \in [1..Arity(cmd) -> pool] :
       /\ t' = Number(n[1])
       /\ Assign(on_group(State, n))
       /\ ab' = on_group(ab, Absolute(cmd, n, x, y))
  /\ i' = i + Arity(cmd)
  /\ UNCHANGED <<ntok, pool, ppc, ret>>
  /\ UNCHANGED <<cvars, mvars, fvars>>

RelReturn ==
  /\ ppc = "loop"
  /\ i = ntok
  /\ ret' = result(State)
  /\ ppc' = "return"
  /\ UNCHANGED <<ntok, pool, i, t, cmd, x, y, start_x, start_y, minx, miny, maxx, maxy,
                 visited, ab>>
  /\ UNCHANGED <<cvars, mvars, fvars>>

RelNext ==
  \/ RelLetter
  \/ RelGroup
  \/ RelReturn

SpecRel == RelInit /\ [][RelNext]_vars

\* C8: a path of relative commands and its absolute rewriting give the same
\* BBox.
C8_RelativeEqualsAbsolute ==
  ppc = "return" => ret = result(ab)

\* "h 2 c 2 -1 -1 2 2 2": a curve group whose control points are offset by the cursor (2, 0).
C8_Witness ==
  /\ ppc = "return"
  /\ ntok = 9
  /\ cmd = "c"
  /\ visited = {<<2, 0>>, <<4, -1>>, <<1, 2>>, <<4, 2>>}
  /\ ret = <<BBox(1, -1, 4, 2)>>
  /\ ret = result(ab)

(***************************************************************************)
(* Properties of bbox_from_path_d                                          *)
(***************************************************************************)
\* The last loop iteration read a command letter.
LetterStep == i' = i + 1 /\ IsLetter(t')

\* The last loop iteration consumed a complete argument group.
GroupStep ==
  /\ i' > i
  /\ ~ IsLetter(t')
  /\ cmd \notin {"Z", "z"}
  /\ ppc' = "loop"

MinOf(S) == CHOOSE v \in S : \A u \in S : v <= u
MaxOf(S) == CHOOSE v \in S : \A u \in S : u <= v

\* Componentwise min/max of a non-empty set of points.
Extent(P) ==
  BBox(MinOf({p[1] : p \in P}), MinOf({p[2] : p \in P}),
       MaxOf({p[1] : p \in P}), MaxOf({p[2] : p \in P}))

\* C3: interpreting a path never raises to the caller.
C3_NeverRaises == ppc # "ValueError"

\* C6: a closepath puts the cursor on the subpath start, records that point
\* and leaves the loop running; the cursor stays there while Z is the active
\* command, a following non-Z letter does not move it, and the relative
\* group read next is offset from the subpath start.
C6_ClosepathResetsCursor ==
  /\ [](cmd \in {"Z", "z"} => x = start_x /\ y = start_y)
  /\ [][/\ (LetterStep /\ t'.letter \in {"Z", "z"}) =>
             /\ cmd' = t'.letter
             /\ x' = start_x
             /\ y' = start_y
             /\ start_x' = start_x
             /\ start_y' = start_y
             /\ visited' = visited \cup {<<start_x, start_y>>}
             /\ minx' <= start_x /\ start_x <= maxx'
             /\ miny' <= start_y /\ start_y <= maxy'
             /\ ppc' = "loop"
        /\ (LetterStep /\ t'.letter \notin {"Z", "z"}) => (x' = x /\ y' = y)
        /\ (GroupStep /\ cmd \in {"h", "l"} /\ x = start_x /\ y = start_y) =>
             x' = FAdd(t'.number, start_x)]_vars

\* "h 2 z h -1": the second h starts from the subpath start (0, 0), not from
\* the cursor (2, 0) held before the z.
C6_Witness ==
  /\ ppc = "loop"
  /\ i = 5
  /\ cmd = "h"
  /\ start_x = 0 /\ start_y = 0
  /\ x = -1 /\ y = 0
  /\ visited = {<<2, 0>>, <<0, 0>>, <<-1, 0>>}

\* C7: the active command changes only when a letter is read or from M to L
\* and m to l after a moveto group; every complete argument group consumes
\* the arity of the active command and leaves that command active (L after
\* M, l after m), and only a moveto group moves the subpath start.
C7_ImplicitRepeat ==
  [][/\ cmd' # cmd =>
          \/ LetterStep
          \/ (GroupStep /\ cmd = "M" /\ cmd' = "L")
          \/ (GroupStep /\ cmd = "m" /\ cmd' = "l")
     /\ LetterStep => cmd' = t'.letter
     /\ GroupStep =>
          /\ i' = i + Arity(cmd)
          /\ cmd' = (CASE cmd = "M" -> "L" [] cmd = "m" -> "l" [] OTHER -> cmd)
          /\ cmd \notin {"M", "m"} => (start_x' = start_x /\ start_y' = start_y)]_vars

\* "m 2 2 -1 -1": the second pair is a relative lineto from (2, 2).
C7_Witness ==
  /\ ppc = "loop"
  /\ i = 5
  /\ cmd = "l"
  /\ start_x = 2 /\ start_y = 2
  /\ x = 1 /\ y = 1
  /\ visited = {<<2, 2>>, <<1, 1>>}

\* C9: the result is None exactly when no point was visited, and otherwise
\* the componentwise min/max of the visited points.
C9_ResultIsExtent ==
  ppc = "return" =>
    ret = (IF visited = {} THEN <<>> ELSE <<Extent(visited)>>)

(***************************************************************************)
(* bbox_from_path_d as a function of the string d, a list of characters:   *)
(* the tokenizer of line 78 on letters, digits and separators, then the    *)
(* loop of lines 109-241 through the handlers above.                       *)
(***************************************************************************)
MaxPaths == 3

Digits == <<"0", "1", "2", "3", "4", "5", "6", "7", "8", "9">>

IsDigit(c) == \E n \in 1..Len(Digits) : Digits[n] = c

DigitValue(c) == (CHOOSE n \in 1..Len(Digits) : Digits[n] = c) - 1

\* The regular expression is greedy: "\d+" runs to the last digit in a row.
digits_end_one(d, k) == k

digits_end(d, k) ==
  CHOOSE e \in k..Len(d) :
    /\ \A j \in k..e : IsDigit(d[j])
    /\ e = Len(d) \/ ~ IsDigit(d[e + 1])

\* float() of the digits d[a..b]
RECURSIVE float(_, _, _)
float(d, a, b) ==
  IF a > b THEN 0 ELSE float(d, a, b - 1) * 10 + DigitValue(d[b])

\* re.findall from character k on: a command letter, or a run of digits; any
\* other character is passed over.
RECURSIVE findall(_, _)
findall(d, k) ==
  IF k > Len(d) THEN <<>>
  ELSE IF d[k] \in Letters THEN <<Letter(d[k])>> \o findall(d, k + 1)
  ELSE IF IsDigit(d[k])
  THEN LET e == digits_end(d, k)
       IN <<Number(float(d, k, e))>> \o findall(d, e + 1)
  ELSE findall(d, k + 1)

\* The while loop from index n on, with locals s; what it gives is the value
\* returned, or the ValueError of float().
RECURSIVE loop(_, _, _)
loop(s, tokens, n) ==
  IF n >= Len(tokens) THEN [raised |-> FALSE, value |-> result(s)]
  ELSE IF IsLetter(tokens[n + 1])
  THEN loop(on_letter(s, tokens[n + 1].letter), tokens, n + 1)
  ELSE IF s.cmd = NoCmd THEN [raised |-> FALSE, value |-> result(s)]
  ELSE IF s.cmd \in {"Z", "z"} THEN loop(s, tokens, n + 1)
  ELSE LET rd == SubSeq(tokens, n + 1, Min2(n + Arity(s.cmd), Len(tokens)))
           r == take_numbers(rd, Arity(s.cmd))
       IN IF r.raised THEN [raised |-> TRUE, value |-> <<>>]
          ELSE IF Len(r.nums) < Arity(s.cmd)
          THEN [raised |-> FALSE, value |-> result(s)]
          ELSE loop(on_group(s, r.nums), tokens, n + Len(rd))

bbox_from_path_d(d) ==
  LET tokens == findall(d, 1)
  IN IF tokens = <<>> THEN [raised |-> FALSE, value |-> <<>>]
     ELSE loop(State0, tokens, 0)

(***************************************************************************)
(* Paths are turned into boxes as main does (lines 354-358) and the boxes  *)
(* are handed to cluster_bboxes.                                           *)
(***************************************************************************)
Path1 ==
  <<"M", "0", " ", "0", " ", "L", "1", "0", "0", " ", "0", " ", "L", "1",
    "0", "0", " ", "5", "0", " ", "L", "0", " ", "5", "0", " ", "Z">>

Path2 ==
  <<"M", "0", " ", "4", "0", " ", "L", "9", "0", " ", "4", "0", " ", "L",
    "9", "0", " ", "9", "0", " ", "L", "0", " ", "9", "0", " ", "Z">>

Path3 ==
  <<"M", "5", "0", "0", " ", "0", " ", "L", "6", "0", "0", " ", "0", " ",
    "L", "6", "0", "0", " ", "6", "0", " ", "L", "5", "0", "0", " ", "6",
    "0", " ", "Z">>

PathNear ==
  <<"M", "1", "1", "0", " ", "0", " ", "H", "2", "0", "0", " ", "V", "5",
    "0">>

PathEmpty ==
  <<>>

PathBroken ==
  <<"L", "5", "Z">>

Paths == {Path1, Path2, Path3, PathNear, PathEmpty, PathBroken}

Proximities == {0, 10}

ScenarioInit ==
  /\ beige_paths \in SeqsUpTo(Paths, MaxPaths)
  /\ di = 0
  /\ mbboxes = <<>>
  /\ mclusters = <<>>
  /\ top = <<>>
  /\ mapping = <<>>
  /\ written = <<>>
  /\ mpc = "collect"
  /\ bboxes = <<>>
  /\ proximity \in Proximities
  /\ clusters = <<>>
  /\ out = <<>>
  /\ changed = FALSE
  /\ bi = 1
  /\ ci = 1
  /\ cpc = "idle"
  /\ passes = 0
  /\ PathIdle
  /\ ab = State0
  /\ FuncIdle

\* "bb = bbox_from_path_d(d); if bb: bboxes.append(bb)"
CollectBox ==
  /\ mpc = "collect"
  /\ di < Len(beige_paths)
  /\ LET bb == bbox_from_path_d(beige_paths[di + 1])
     IN IF bb.raised
        THEN /\ mpc' = "ValueError"
             /\ UNCHANGED <<mbboxes, di>>
        ELSE /\ mbboxes' = mbboxes \o bb.value
             /\ di' = di + 1
             /\ UNCHANGED mpc
  /\ UNCHANGED <<beige_paths, mclusters, top, mapping, written>>
  /\ UNCHANGED <<cvars, pvars, ab, fvars>>

\* The call of cluster_bboxes with the boxes collected.
CallCluster ==
  /\ mpc = "collect"
  /\ di = Len(beige_paths)
  /\ mpc' = "cluster"
  /\ bboxes' = mbboxes
  /\ cpc' = "greedy"
  /\ UNCHANGED <<proximity, clusters, out, changed, bi, ci, passes>>
  /\ UNCHANGED <<beige_paths, di, mbboxes, mclusters, top, mapping, written>>
  /\ UNCHANGED <<pvars, ab, fvars>>

ScenarioNext ==
  \/ CollectBox
  \/ CallCluster
  \/ ClusterNext

SpecScenario == ScenarioInit /\ [][ScenarioNext]_vars

\* C12: the three paths of the scenario give the boxes {0,0,100,50},
\* {0,40,90,90} and {500,0,600,60}, and cluster_bboxes with proximity 10
\* returns exactly the two clusters {0,0,100,90} and {500,0,600,60}.
C12_Scenario ==
  (beige_paths = <<Path1, Path2, Path3>> /\ proximity = 10) =>
    /\ mpc # "ValueError"
    /\ di = 3 =>
         mbboxes = <<BBox(0, 0, 100, 50), BBox(0, 40, 90, 90),
                     BBox(500, 0, 600, 60)>>
    /\ cpc = "done" =>
         clusters = <<BBox(0, 0, 100, 90), BBox(500, 0, 600, 60)>>

C12_Witness ==
  /\ beige_paths = <<Path1, Path2, Path3>>
  /\ proximity = 10
  /\ cpc = "done"
  /\ Len(clusters) = 2

(***************************************************************************)
(* The arithmetic of crop_to_square and crop_rect is that of binary        *)
(* floating point: every sum and difference is rounded to the nearest      *)
(* number with a significand of PrecisionBits bits, ties to the even one   *)
(* (the doubles of the code have 53 bits).  Numbers are counted in units   *)
(* of the smallest spacing.                                                *)
(***************************************************************************)
PrecisionBits == 3
MaxCoordStep == 7

Abs(v) == IF v < 0 THEN -v ELSE v

\* The spacing of the representable numbers around a number of size a.
RECURSIVE Quantum(_)
Quantum(a) == IF a < 2^PrecisionBits THEN 1 ELSE 2 * Quantum(a \div 2)

Round(v) ==
  LET q == Quantum(Abs(v))
      lo == (v \div q) * q
      hi == lo + q
  IN IF v = lo THEN v
     ELSE IF v - lo < hi - v THEN lo
     ELSE IF hi - v < v - lo THEN hi
     ELSE IF (lo \div q) % 2 = 0 THEN lo ELSE hi

fadd(a, b) == Round(a + b)

fsub(a, b) == Round(a - b)

\* "/ 2.0" only moves the exponent; the numbers halved in the model are even.
fdiv2(v) == v \div 2

\* BBox.w, h, cx and cy in this arithmetic.
fw(b) == fsub(b.maxx, b.minx)

fh(b) == fsub(b.maxy, b.miny)

fcx(b) == fdiv2(fadd(b.minx, b.maxx))

fcy(b) == fdiv2(fadd(b.miny, b.maxy))

crop_to_square(b, pad) ==
  LET nminx == fsub(b.minx, pad)
      nminy == fsub(b.miny, pad)
      nmaxx == fadd(b.maxx, pad)
      nmaxy == fadd(b.maxy, pad)
      nw == fsub(nmaxx, nminx)
      nh == fsub(nmaxy, nminy)
      side == Max2(nw, nh)
      ncx == fdiv2(fadd(nminx, nmaxx))
      ncy == fdiv2(fadd(nminy, nmaxy))
  IN BBox(fsub(ncx, fdiv2(side)), fsub(ncy, fdiv2(side)),
          fadd(ncx, fdiv2(side)), fadd(ncy, fdiv2(side)))

\* Coordinates and paddings of the model: representable, the paddings no
\* smaller than the spacing at the coordinates.
FloatCoords == {Round(4 * k) : k \in 0..MaxCoordStep}

FloatBoxes ==
  {b \in {BBox(x0, y0, x1, y1) : x0 \in FloatCoords, y0 \in FloatCoords,
                                 x1 \in FloatCoords, y1 \in FloatCoords} :
     WellFormed(b)}

SquarePads == {0, 4, 8}

SquareInit ==
  /\ fb \in FloatBoxes
  /\ fpad \in {[pad |-> v] : v \in SquarePads}
  /\ max_w = 0
  /\ fret = <<>>
  /\ fpc = "crop_to_square"
  /\ ClusterIdle
  /\ PathIdle
  /\ ab = State0
  /\ MainIdle

CropToSquare ==
  /\ fpc = "crop_to_square"
  /\ fret' = crop_to_square(fb, fpad.pad)
  /\ fpc' = "return"
  /\ UNCHANGED <<fb, fpad, max_w>>
  /\ UNCHANGED <<cvars, pvars, ab, mvars>>

SpecSquare == SquareInit /\ [][CropToSquare]_vars

\* C13: what crop_to_square returns is as wide as it is high, that being the
\* larger of the input's width and height plus twice the padding, has the
\* centre of the input, and contains the input.
C13_SquareCentred ==
  fpc = "return" =>
    /\ fw(fret) = fh(fret)
    /\ fw(fret) = fadd(Max2(fw(fb), fh(fb)), 2 * fpad.pad)
    /\ fcx(fret) = fcx(fb)
    /\ fcy(fret) = fcy(fb)
    /\ fret.minx <= fb.minx /\ fret.miny <= fb.miny
    /\ fb.maxx <= fret.maxx /\ fb.maxy <= fret.maxy

(***************************************************************************)
(* crop_rect, in the same arithmetic.                                      *)
(***************************************************************************)
crop_rect_swapped(b, pad_l, pad_r, pad_t, pad_b) ==
  BBox(fsub(b.minx, pad_l), fsub(b.miny, pad_b),
       fadd(b.maxx, pad_r), fadd(b.maxy, pad_t))

crop_rect(b, pad_l, pad_r, pad_t, pad_b) ==
  BBox(fsub(b.minx, pad_l), fsub(b.miny, pad_t),
       fadd(b.maxx, pad_r), fadd(b.maxy, pad_b))

RectPads == {-4, 0, 4, 8}

RectInit ==
  /\ fb \in FloatBoxes
  /\ fpad \in [pad_l : RectPads, pad_r : RectPads,
                pad_t : RectPads, pad_b : RectPads]
  /\ max_w = 0
  /\ fret = <<>>
  /\ fpc = "crop_rect"
  /\ ClusterIdle
  /\ PathIdle
  /\ ab = State0
  /\ MainIdle

CropRect ==
  /\ fpc = "crop_rect"
  /\ fret' = crop_rect(fb, fpad.pad_l, fpad.pad_r, fpad.pad_t, fpad.pad_b)
  /\ fpc' = "return"
  /\ UNCHANGED <<fb, fpad, max_w>>
  /\ UNCHANGED <<cvars, pvars, ab, mvars>>

SpecRect == RectInit /\ [][CropRect]_vars

\* -1, 0 or 1 as v is negative, zero or positive.
Sign(v) == IF v < 0 THEN -1 ELSE IF v > 0 THEN 1 ELSE 0

MinCanvasHeight == 220
MaxCanvasHeight == 640

\* "max(..., 1.0)"
floor_none(v) == v

floor_one(v) == Max2(v, 1)

\* round(n / d), d not 0
round(n, d) ==
  LET nn == IF d < 0 THEN -n ELSE n
      dd == Abs(d)
      q == nn \div dd
      r == nn % dd
  IN IF 2 * r < dd THEN q
     ELSE IF 2 * r > dd THEN q + 1
     ELSE IF q % 2 = 0 THEN q ELSE q + 1

svg_canvas_for_viewbox(vb, mw) ==
  LET nw == floor_one(IF vb.maxx = Inf THEN Inf ELSE w(vb))
      nh == floor_one(IF vb.maxy = Inf THEN Inf ELSE h(vb))
      clamp(v) == Max2(MinCanvasHeight, Min2(MaxCanvasHeight, v))
  IN IF nw = 0 THEN [raised |-> "ZeroDivisionError", value |-> <<>>]
     ELSE IF nh = Inf /\ nw = Inf
     THEN [raised |-> "ValueError", value |-> <<>>]
     ELSE IF nh = Inf THEN [raised |-> "OverflowError", value |-> <<>>]
     ELSE IF nw = Inf THEN [raised |-> "", value |-> <<mw, clamp(0)>>]
     ELSE [raised |-> "", value |-> <<mw, clamp(round(mw * nh, nw))>>]

\* Widths and heights of the viewports of the model, and their corners.
CanvasExtents == {-5, 0, 1, 2, 3, 50, 100, 640, Inf}

CanvasCorners == {0, 7}

CanvasWidths == {100, 640}

CanvasInit ==
  /\ fb \in {BBox(x0, y0, FAdd(x0, dw), FAdd(y0, dh)) :
               x0 \in CanvasCorners, y0 \in CanvasCorners,
               dw \in CanvasExtents, dh \in CanvasExtents}
  /\ fpad = <<>>
  /\ max_w \in CanvasWidths
  /\ fret = <<>>
  /\ fpc = "svg_canvas_for_viewbox"
  /\ ClusterIdle
  /\ PathIdle
  /\ ab = State0
  /\ MainIdle

CanvasReturn ==
  /\ fpc = "svg_canvas_for_viewbox"
  /\ svg_canvas_for_viewbox(fb, max_w).raised = ""
  /\ fret' = svg_canvas_for_viewbox(fb, max_w).value
  /\ fpc' = "return"
  /\ UNCHANGED <<fb, fpad, max_w>>
  /\ UNCHANGED <<cvars, pvars, ab, mvars>>

\* round() of an infinity or of a NaN raises.
CanvasRaise ==
  /\ fpc = "svg_canvas_for_viewbox"
  /\ svg_canvas_for_viewbox(fb, max_w).raised # ""
  /\ fpc' = svg_canvas_for_viewbox(fb, max_w).raised
  /\ UNCHANGED <<fb, fpad, max_w, fret>>
  /\ UNCHANGED <<cvars, pvars, ab, mvars>>

CanvasNext ==
  \/ CanvasReturn
  \/ CanvasRaise

SpecCanvas == CanvasInit /\ [][CanvasNext]_vars

\* C14: svg_canvas_for_viewbox never divides by zero, and what it returns is
\* max_w with a height from 220 to 640, whatever the viewport.
C14_HeightClamped ==
  /\ fpc # "ZeroDivisionError"
  /\ fpc = "return" =>
       /\ fret[1] = max_w
       /\ MinCanvasHeight <= fret[2]
       /\ fret[2] <= MaxCanvasHeight

\* A viewport of no width, 50 high: the ratio is taken with width 1 and the
\* height is clamped from above.
C14_Witness ==
  /\ fpc = "return"
  /\ fb.maxx <= fb.minx
  /\ fb.maxy - fb.miny = 50
  /\ fret = <<max_w, MaxCanvasHeight>>

(***************************************************************************)
(* Runs of bbox_from_path_d and runs of cluster_bboxes, side by side.      *)
(***************************************************************************)
PipelineInit ==
  \/ PathInit
  \/ ClusterInit

PipelineNext ==
  \/ PathNext
  \/ ClusterNext

SpecPipeline == PipelineInit /\ [][PipelineNext]_vars

\* C15: a box returned by bbox_from_path_d has minx <= maxx and
\* miny <= maxy, and so has every box cluster_bboxes holds, in clusters or
\* in the list a re-merge pass builds, at every step of a run on such boxes.
C15_WellFormed ==
  /\ (ppc = "return" /\ ret # <<>>) => WellFormed(ret[1])
  /\ \A k \in 1..Len(clusters) : WellFormed(clusters[k])
  /\ \A k \in 1..Len(out) : WellFormed(out[k])

\* A re-merge pass has just joined two clusters into their union.
C15_Witness ==
  /\ cpc = "pass"
  /\ changed
  /\ Len(out) = 1
  /\ Len(clusters) = 2
  /\ out[1] = union(clusters[1], clusters[2])
  /\ out[1] # clusters[1]

(***************************************************************************)
(* The points of a curve or arc group                                      *)
(***************************************************************************)
CurveLetters == {"C", "c", "S", "s", "Q", "q", "T", "t", "A", "a"}

\* The numbers n of a group under command c as absolute coordinates.
Coordinates(c, n, curx, cury) ==
  IF c \in RelLetters THEN Absolute(c, n, curx, cury) ELSE n

\* The pairs among the absolute numbers a that are points of the curve: for
\* an arc only the last pair.
CurvePoints(c, a) ==
  IF c \in {"A", "a"} THEN {<<a[6], a[7]>>}
  ELSE {<<a[2 * k - 1], a[2 * k]>> : k \in 1..(Len(a) \div 2)}

\* C17: a complete group under C, S, Q, T or A (or the lower-case letter)
\* consumes 6, 4, 4, 2 or 7 numbers; the points it records are the three,
\* two, two or one pairs of the group, for an arc only the final pair; the
\* bounds grow by these points alone, the cursor becomes the last pair and
\* the subpath start stays.
C17_CurvePoints ==
  [][(GroupStep /\ cmd \in CurveLetters) =>
       \E n \in [1..Arity(cmd) -> pool] :
         LET a == Coordinates(cmd, n, x, y)
             pts == CurvePoints(cmd, a)
         IN /\ n[1] = t'.number
            /\ i' = i + Len(n)
            /\ Len(n) = (CASE cmd \in {"C", "c"} -> 6
                           [] cmd \in {"S", "s", "Q", "q"} -> 4
                           [] cmd \in {"T", "t"} -> 2
                           [] cmd \in {"A", "a"} -> 7)
            /\ visited' = visited \cup pts
            /\ minx' = MinOf({minx} \cup {q[1] : q \in pts})
            /\ miny' = MinOf({miny} \cup {q[2] : q \in pts})
            /\ maxx' = MaxOf({maxx} \cup {q[1] : q \in pts})
            /\ maxy' = MaxOf({maxy} \cup {q[2] : q \in pts})
            /\ x' = a[Len(a) - 1]
            /\ y' = a[Len(a)]
            /\ start_x' = start_x
            /\ start_y' = start_y
            /\ cmd' = cmd]_vars

\* "a 2 2 2 2 2 -1 2": of the seven numbers only the point (-1, 2) is kept.
C17_Witness ==
  /\ ppc = "loop"
  /\ i = 8
  /\ cmd = "a"
  /\ t = Number(2)
  /\ x = -1 /\ y = 2
  /\ visited = {<<-1, 2>>}
  /\ minx = -1 /\ maxx = -1 /\ miny = 2 /\ maxy = 2

(***************************************************************************)
(* Termination of cluster_bboxes                                           *)
(***************************************************************************)
\* C18: cluster_bboxes returns; a pass of the while loop never ends with
\* more clusters than it began with, and with fewer when it reports a
\* change; after the greedy phase the number of clusters never grows; and
\* the passes that report a change number at most one less than the
\* clusters the greedy phase left.
C18_Terminates ==
  /\ <>(cpc = "done")
  /\ [][(cpc = "pass" /\ cpc' = "while") =>
          /\ Len(clusters') <= Len(clusters)
          /\ changed => Len(clusters') < Len(clusters)]_vars
  /\ [][cpc # "greedy" => Len(clusters') <= Len(clusters)]_vars
  /\ [](passes <=
          Max2(Len(GreedyPhase(<<>>, bboxes, proximity)) - 1, 0))

\* The greedy phase left two clusters, one pass joined them and a second
\* pass found nothing to join.
C18_Witness ==
  /\ cpc = "done"
  /\ Len(GreedyPhase(<<>>, bboxes, proximity)) = 2
  /\ passes = 1
  /\ Len(clusters) = 1

(***************************************************************************)
(* Termination of the loop of bbox_from_path_d                             *)
(***************************************************************************)
\* C19: the loop ends (in the return statement, or in the ValueError of
\* float()); an iteration after which the loop goes on has moved the index
\* forward, and the index never moves back nor past the end; a number read
\* after Z or z is passed over alone and changes nothing else, and a number
\* read before any command letter ends the loop.
C19_LoopTerminates ==
  /\ <>(ppc \in {"return", "ValueError"})
  /\ [](i <= ntok)
  /\ [][/\ i' >= i
        /\ (ppc = "loop" /\ ppc' = "loop") => i' > i
        /\ (ppc = "loop" /\ i < ntok /\ cmd \in {"Z", "z"}
              /\ ~ IsLetter(t')) =>
             (i' = i + 1 /\ ppc' = "loop" /\ cmd' = cmd
                /\ visited' = visited /\ x' = x /\ y' = y)
        /\ (ppc = "loop" /\ i < ntok /\ cmd = NoCmd /\ ~ IsLetter(t')) =>
             (ppc' = "return" /\ i' = i)]_vars

\* "z 2 2": both numbers after the closepath have been passed over.
C19_Witness ==
  /\ ppc = "loop"
  /\ cmd = "z"
  /\ i = 3
  /\ t = Number(2)
  /\ visited = {<<0, 0>>}

(***************************************************************************)
(* Inputs and outputs of cluster_bboxes                                    *)
(***************************************************************************)
\* The input boxes an output box contains.
Members(o) == {n \in 1..Len(bboxes) : Contains(o, bboxes[n])}

\* C20: on return every input box lies in exactly one output box, and every
\* output box is the componentwise min/max of the input boxes lying in it;
\* no input gives no output, and an input of one box gives that box.
C20_NothingLostNothingInvented ==
  cpc = "done" =>
    /\ \A n \in 1..Len(bboxes) :
         Cardinality({k \in 1..Len(clusters) :
                        Contains(clusters[k], bboxes[n])}) = 1
    /\ \A k \in 1..Len(clusters) :
         /\ Members(clusters[k]) # {}
         /\ clusters[k] =
              BBox(MinOf({bboxes[n].minx : n \in Members(clusters[k])}),
                   MinOf({bboxes[n].miny : n \in Members(clusters[k])}),
                   MaxOf({bboxes[n].maxx : n \in Members(clusters[k])}),
                   MaxOf({bboxes[n].maxy : n \in Members(clusters[k])}))
    /\ bboxes = <<>> => clusters = <<>>
    /\ Len(bboxes) = 1 => clusters = bboxes

\* Three different boxes in, two out: one of them a union that is none of
\* the inputs, the other an input returned as it came.
C20_Witness ==
  /\ cpc = "done"
  /\ Len(bboxes) = 3
  /\ Len(clusters) = 2
  /\ \E k \in 1..2 : clusters[k] \notin Range(bboxes)
  /\ \E k \in 1..2 : clusters[k] \in Range(bboxes)

====
